---- MODULE Spec2Model ----
(***************************************************************************)
(* Model of gum (Go Unit Manager), src/manager.go.                         *)
(*                                                                         *)
(* One Manager supervises the goroutines of its registered units.  The     *)
(* model follows the code statement by statement at the granularity of    *)
(* channel operations and of the accesses to the shared field isPaniced.   *)
(* Channels are buffers with the capacity given to make(); a send on a     *)
(* full buffer blocks (the action is disabled), a send on a closed channel *)
(* or the close of a closed channel is a Go runtime panic, which ends the  *)
(* process (crashed).  Ranging over the workers map visits the units in an *)
(* order chosen by the runtime: the model picks any unit not yet visited.  *)
(***************************************************************************)
EXTENDS Integers, Sequences, FiniteSets, TLC

(***************************************************************************)
(* Bounds of the model.                                                    *)
(***************************************************************************)
MaxUnits == 2        \* AddUnit calls on the manager that runs
MaxSignals == 2      \* signals the operating system relays to signalIn
MaxRegs == 4         \* AddUnit calls in the registration specifications
PanicUnits == 3      \* AddUnit calls in the specification without signals
MaxCallers == 3      \* goroutines that call AddUnit concurrently

(***************************************************************************)
(* Channel capacities, from the make() calls.                              *)
(***************************************************************************)
StopCap == 1
WorkerQuitCap == 1
SignalInCap == 1
QuitCap == 1
PanicCap == 1

Managers == {1, 2}
Callers == 1..MaxCallers
Signals == {"INT"}

NoUnit == << >>

(***************************************************************************)
(* Strings are sequences of one-character strings, so that fmt.Sprintf,    *)
(* strings.Split and the decimal formatting of %d are computed character   *)
(* by character.                                                           *)
(***************************************************************************)
Digits == <<"0", "1", "2", "3", "4", "5", "6", "7", "8", "9">>

RECURSIVE Itoa(_)
Itoa(n) == IF n < 10 THEN <<Digits[n + 1]>>
           ELSE Itoa(n \div 10) \o <<Digits[(n % 10) + 1]>>

\* strings.Split(s, "."): the pieces of s between the dots.
RECURSIVE SplitDot(_)
SplitDot(s) ==
    IF \A i \in 1..Len(s) : s[i] # "."
    THEN <<s>>
    ELSE LET i == CHOOSE j \in 1..Len(s) :
                      s[j] = "." /\ \A k \in 1..(j - 1) : s[k] # "."
         IN  <<SubSeq(s, 1, i - 1)>> \o SplitDot(SubSeq(s, i + 1, Len(s)))

\* reflect.TypeOf(unit).String() of the unit types registered in the model.
UnitTypes == { <<"*", "g", ".", "W">>, <<"*", "h", ".", "W">>, <<"g", ".", "V">> }
RunTypes == { <<"*", "g", ".", "W">> }

\* Labels the caller passes to AddUnit.
Labels == { <<"a">>, <<"b">>, <<"a", "[", "W">>, <<"a", "[", "W", "#", "0", "]">> }
RunLabels == { <<"a">> }

UnitClass(t) == SplitDot(t)[2]

\* fmt.Sprintf("%s[%s", name, unitClass)
UnitKey(label, t) == label \o <<"[">> \o UnitClass(t)

\* fmt.Sprintf("%s#%d]", unitName, unitID)
UnitName(key, id) == key \o <<"#">> \o Itoa(id) \o <<"]">>

VARIABLES
    ids,          \* genID's map: key -> next suffix (absent key reads 0)
    registry,     \* Manager.workers of each manager: the set of unit names
    addCalls,     \* AddUnit calls made on each manager
    lastName,     \* the name the last AddUnit call generated
    cpc,          \* position of each goroutine that calls AddUnit concurrently
    ckey,         \* its local unitName, the key passed to idGenerator
    cret,         \* its local ret in genID's closure
    ctmp,         \* the value ids[unit]++ loaded and has yet to store
    shutdownSigs, \* Manager.shutdownSigs of manager 1
    lateSigs,     \* signals a ShutdownOn call registered while Run was running
    signalIn,     \* Manager.signalIn of manager 1
    panicCh,      \* Manager.panic: the units whose errors are buffered
    Quit,         \* Manager.Quit: number of buffered values
    stop,         \* WorkUnitManager.stop: number of buffered values
    stopClosed,   \* WorkUnitManager.stop has been closed
    workerQuit,   \* WorkUnitManager.workerQuit: buffered values, by sender
    isPaniced,    \* WorkUnitManager.isPaniced
    flagSynced,   \* the write of isPaniced happens-before the manager's reads
    upc,          \* position of each unit's goroutine
    spc,          \* position of Manager.Run
    path,         \* the select case Manager.Run is executing
    todo,         \* units the current range loop has not visited yet
    cur,          \* the unit the current range loop is at, NoUnit between units
    reported,     \* the unit whose error the manager received last
    crashed,      \* a Go runtime panic ended the process
    awaited,      \* the caller has received from Quit
    sigCount,     \* signals relayed so far
    quitSends,    \* completed sends on Quit
    stopSends,    \* completed sends by the manager on each stop channel
    doneSent,     \* completed sends by each unit on its workerQuit
    doneRecv,     \* values the manager received from each workerQuit
    stopSeen      \* receives of each unit on its stop channel that completed

concVars == <<cpc, ckey, cret, ctmp>>
regVars == <<ids, registry, addCalls, lastName, concVars>>
chanVars == <<signalIn, panicCh, Quit, stop, stopClosed, workerQuit>>
unitVars == <<isPaniced, flagSynced, upc>>
supVars == <<spc, path, todo, cur, reported>>
histVars == <<awaited, sigCount, quitSends, stopSends, doneSent, doneRecv, stopSeen>>
vars == <<regVars, shutdownSigs, lateSigs, chanVars, unitVars, supVars, crashed, histVars>>

workers == registry[1]

\* ids[unit] of a Go map: the zero value for an absent key.
IdOf(m, key) == IF key \in DOMAIN m THEN m[key] ELSE 0

\* f with the entry k -> v added or replaced.
Put(f, k, v) == [x \in (DOMAIN f) \cup {k} |-> IF x = k THEN v ELSE f[x]]

EmptyMap == [x \in {} |-> 0]

(***************************************************************************)
(* NewManager, and the package variable idGenerator = genID().             *)
(***************************************************************************)
Init ==
    /\ ids = EmptyMap
    /\ registry = [m \in Managers |-> {}]
    /\ addCalls = [m \in Managers |-> 0]
    /\ lastName = NoUnit
    /\ cpc = [c \in Callers |-> "idle"]
    /\ ckey = [c \in Callers |-> NoUnit]
    /\ cret = [c \in Callers |-> 0]
    /\ ctmp = [c \in Callers |-> 0]
    /\ shutdownSigs = {}
    /\ lateSigs = {}
    /\ signalIn = << >>
    /\ panicCh = << >>
    /\ Quit = 0
    /\ stop = EmptyMap
    /\ stopClosed = EmptyMap
    /\ workerQuit = EmptyMap
    /\ isPaniced = EmptyMap
    /\ flagSynced = EmptyMap
    /\ upc = EmptyMap
    /\ spc = "idle"
    /\ path = "none"
    /\ todo = {}
    /\ cur = NoUnit
    /\ reported = NoUnit
    /\ crashed = FALSE
    /\ awaited = FALSE
    /\ sigCount = 0
    /\ quitSends = 0
    /\ stopSends = EmptyMap
    /\ doneSent = EmptyMap
    /\ doneRecv = EmptyMap
    /\ stopSeen = EmptyMap

(***************************************************************************)
(* genID's closure: ret := ids[unit]; ids[unit]++; return ret.             *)
(***************************************************************************)
\* a generator that returns the counter after incrementing it
GenIDRetAfter(m, key) == IdOf(m, key) + 1

GenIDRet(m, key) == IdOf(m, key)

\* a generator that does not advance its counter
GenIDMapStuck(m, key) == Put(m, key, IdOf(m, key))

GenIDMap(m, key) == Put(m, key, IdOf(m, key) + 1)

(***************************************************************************)
(* Manager.AddUnit: the fresh WorkUnitManager and                          *)
(* m.workers[unitName] = workUnitManager.  An existing entry of that name  *)
(* is replaced.                                                            *)
(***************************************************************************)
StoreUnit(mgr, unitName) ==
    /\ registry' = [registry EXCEPT ![mgr] = @ \cup {unitName}]
    /\ addCalls' = [addCalls EXCEPT ![mgr] = @ + 1]
    /\ lastName' = unitName
    /\ IF mgr = 1
       THEN /\ stop' = Put(stop, unitName, 0)
            /\ stopClosed' = Put(stopClosed, unitName, FALSE)
            /\ workerQuit' = Put(workerQuit, unitName, << >>)
            /\ isPaniced' = Put(isPaniced, unitName, FALSE)
            /\ flagSynced' = Put(flagSynced, unitName, FALSE)
            /\ upc' = Put(upc, unitName, "new")
            /\ stopSends' = Put(stopSends, unitName, 0)
            /\ doneSent' = Put(doneSent, unitName, 0)
            /\ doneRecv' = Put(doneRecv, unitName, 0)
            /\ stopSeen' = Put(stopSeen, unitName, 0)
       ELSE UNCHANGED <<stop, stopClosed, workerQuit, isPaniced, flagSynced,
                        upc, stopSends, doneSent, doneRecv, stopSeen>>

(***************************************************************************)
(* Manager.AddUnit(unit, name) on manager mgr, before Run, called from one *)
(* goroutine.                                                              *)
(***************************************************************************)
AddUnit(mgr, label, t) ==
    LET key == UnitKey(label, t)
        unitName == UnitName(key, GenIDRet(ids, key))
    IN  /\ spc = "idle"
        /\ ids' = GenIDMap(ids, key)
        /\ StoreUnit(mgr, unitName)
        /\ UNCHANGED <<concVars, shutdownSigs, lateSigs, signalIn, panicCh, Quit, supVars,
                       crashed, awaited, sigCount, quitSends>>

(***************************************************************************)
(* Registration alone: AddUnit calls, one after the other, on either       *)
(* manager of the process, with any label and unit type.                   *)
(***************************************************************************)
NextReg ==
    \E mgr \in Managers, label \in Labels, t \in UnitTypes :
        /\ addCalls[1] + addCalls[2] < MaxRegs
        /\ AddUnit(mgr, label, t)

SpecReg == Init /\ [][NextReg]_vars

(***************************************************************************)
(* AddUnit called from several goroutines at once on manager 1.  Neither   *)
(* genID's map nor m.workers is protected by a lock, so the statements of  *)
(* the calls interleave: ret := ids[unit] is a map read, ids[unit]++ is a  *)
(* map read followed by a map write.  The Go runtime may also detect two   *)
(* overlapping accesses to one map, one of them a write, and end the       *)
(* process (fatal error: concurrent map writes).                           *)
(***************************************************************************)
ConcLabels == { <<"a">>, <<"b">> }

\* caller c enters AddUnit(unit, label) and computes the key
CallAddUnit(c, label, t) ==
    /\ ~crashed
    /\ spc = "idle"
    /\ cpc[c] = "idle"
    /\ cpc' = [cpc EXCEPT ![c] = "read"]
    /\ ckey' = [ckey EXCEPT ![c] = UnitKey(label, t)]
    /\ UNCHANGED <<ids, registry, addCalls, lastName, cret, ctmp, shutdownSigs, lateSigs,
                   chanVars, unitVars, supVars, crashed, histVars>>

\* ret := ids[unit]
GenRead(c) ==
    /\ ~crashed
    /\ cpc[c] = "read"
    /\ cret' = [cret EXCEPT ![c] = GenIDRet(ids, ckey[c])]
    /\ cpc' = [cpc EXCEPT ![c] = "load"]
    /\ UNCHANGED <<ids, registry, addCalls, lastName, ckey, ctmp, shutdownSigs, lateSigs,
                   chanVars, unitVars, supVars, crashed, histVars>>

\* ids[unit]++, the load
GenLoad(c) ==
    /\ ~crashed
    /\ cpc[c] = "load"
    /\ ctmp' = [ctmp EXCEPT ![c] = IdOf(ids, ckey[c])]
    /\ cpc' = [cpc EXCEPT ![c] = "store"]
    /\ UNCHANGED <<ids, registry, addCalls, lastName, ckey, cret, shutdownSigs, lateSigs,
                   chanVars, unitVars, supVars, crashed, histVars>>

\* ids[unit]++, the store; it may overlap another caller's access to ids
GenStore(c) ==
    /\ ~crashed
    /\ cpc[c] = "store"
    /\ \/ /\ ids' = Put(ids, ckey[c], ctmp[c] + 1)
          /\ cpc' = [cpc EXCEPT ![c] = "insert"]
          /\ UNCHANGED crashed
       \/ /\ \E d \in Callers \ {c} : cpc[d] \in {"read", "load", "store"}
          /\ crashed' = TRUE
          /\ UNCHANGED <<ids, cpc>>
    /\ UNCHANGED <<registry, addCalls, lastName, ckey, cret, ctmp, shutdownSigs, lateSigs,
                   chanVars, unitVars, supVars, histVars>>

\* m.workers[unitName] = workUnitManager; it may overlap another caller's
InsertUnit(c) ==
    /\ ~crashed
    /\ cpc[c] = "insert"
    /\ \/ /\ StoreUnit(1, UnitName(ckey[c], cret[c]))
          /\ cpc' = [cpc EXCEPT ![c] = "done"]
          /\ UNCHANGED crashed
       \/ /\ \E d \in Callers \ {c} : cpc[d] = "insert"
          /\ crashed' = TRUE
          /\ UNCHANGED <<registry, addCalls, lastName, cpc, stop, stopClosed,
                         workerQuit, unitVars, stopSends, doneSent, doneRecv,
                         stopSeen>>
    /\ UNCHANGED <<ids, ckey, cret, ctmp, shutdownSigs, lateSigs, signalIn, panicCh, Quit,
                   supVars, awaited, sigCount, quitSends>>

NextConc ==
    \/ \E c \in Callers, label \in ConcLabels, t \in RunTypes :
          CallAddUnit(c, label, t)
    \/ \E c \in Callers : GenRead(c)
    \/ \E c \in Callers : GenLoad(c)
    \/ \E c \in Callers : GenStore(c)
    \/ \E c \in Callers : InsertUnit(c)

SpecConc == Init /\ [][NextConc]_vars

(***************************************************************************)
(* Manager.ShutdownOn(sig...): signal.Notify relays sig to signalIn and    *)
(* sig is appended to shutdownSigs.                                        *)
(***************************************************************************)
ShutdownOn(sig) ==
    /\ spc = "idle"
    /\ ~crashed
    /\ sig \notin shutdownSigs
    /\ shutdownSigs' = shutdownSigs \cup {sig}
    /\ UNCHANGED <<regVars, lateSigs, chanVars, unitVars, supVars, crashed, histVars>>

(***************************************************************************)
(* The os/signal package relays a signal registered with signal.Notify:    *)
(* a non-blocking send, the signal is dropped when signalIn is full.       *)
(***************************************************************************)
DeliverSignal(sig) ==
    /\ ~crashed
    /\ sig \in shutdownSigs
    /\ sigCount < MaxSignals
    /\ Len(signalIn) < SignalInCap
    /\ signalIn' = Append(signalIn, sig)
    /\ sigCount' = sigCount + 1
    /\ UNCHANGED <<regVars, shutdownSigs, lateSigs, panicCh, Quit, stop, stopClosed,
                   workerQuit, unitVars, supVars, crashed, awaited, quitSends,
                   stopSends, doneSent, doneRecv, stopSeen>>

(***************************************************************************)
(* Manager.Run.  Control flow between the range loops: when a loop has     *)
(* visited every unit the next loop starts over the whole map.             *)
(***************************************************************************)
\* a stop loop that ends after the first unit
StopOrNextFirst(rem) ==
    IF workers # {} THEN spc' = "wait" /\ todo' = workers
    ELSE spc' = "quit" /\ todo' = {}

\* after visiting a unit in a stop loop, rem being the units left
StopOrNext(rem) ==
    IF rem # {} THEN spc' = "stop" /\ todo' = rem
    ELSE IF workers # {} THEN spc' = "wait" /\ todo' = workers
    ELSE spc' = "quit" /\ todo' = {}

\* a wait loop that ends at the first unit that reports
WaitOrNextFirst(rem) ==
    spc' = "quit" /\ todo' = {}

\* after visiting a unit in a wait loop, rem being the units left
WaitOrNext(rem) ==
    IF rem # {} THEN spc' = "wait" /\ todo' = rem
    ELSE spc' = "quit" /\ todo' = {}

\* for unitName, w := range m.workers { go w.unit.Run(w) }
SupStart ==
    /\ spc = "idle"
    /\ ~crashed
    /\ spc' = "select"
    /\ upc' = [u \in workers |-> "run"]
    /\ UNCHANGED <<regVars, shutdownSigs, lateSigs, chanVars, isPaniced, flagSynced, path,
                   todo, cur, reported, crashed, histVars>>

\* a membership test that takes every signal for a shutdown signal
InAny(arr, sig) == TRUE

\* the membership test of in(): slices.Contains(arr, sig)
In(arr, sig) == sig \in arr

\* The results in(m.shutdownSigs, sig) can give in Run.  A ShutdownOn call
\* that runs while Run is running appends to shutdownSigs without
\* synchronisation: Run reads the slice as it was before or after the append.
SigReads(sig) ==
    IF sig \in lateSigs /\ sig \in shutdownSigs
    THEN {In(shutdownSigs, sig), In(shutdownSigs \ lateSigs, sig)}
    ELSE {In(shutdownSigs, sig)}

\* case sig := <-m.signalIn
SupRecvSignal ==
    /\ spc = "select"
    /\ ~crashed
    /\ signalIn # << >>
    /\ signalIn' = Tail(signalIn)
    /\ \E armed \in SigReads(Head(signalIn)) :
          IF ~armed
          THEN UNCHANGED <<spc, path, todo>>
          ELSE path' = "signal" /\ StopOrNext(workers)
    /\ UNCHANGED <<regVars, shutdownSigs, lateSigs, panicCh, Quit, stop, stopClosed,
                   workerQuit, unitVars, cur, reported, crashed, histVars>>

\* case p := <-m.panic, and the loop that logs the units flagged as paniced
SupRecvPanic ==
    /\ spc = "select"
    /\ ~crashed
    /\ panicCh # << >>
    /\ panicCh' = Tail(panicCh)
    /\ reported' = Head(panicCh)
    /\ path' = "panic"
    /\ StopOrNext(workers)
    /\ UNCHANGED <<regVars, shutdownSigs, lateSigs, signalIn, Quit, stop, stopClosed,
                   workerQuit, unitVars, cur, crashed, histVars>>

\* w.stop <- true to unit u, once the loop is at u
SendStop(u) ==
    IF stopClosed[u]
    THEN /\ crashed' = TRUE
         /\ UNCHANGED <<stop, stopSends, spc, todo, cur>>
    ELSE IF stop[u] < StopCap
    THEN /\ stop' = [stop EXCEPT ![u] = @ + 1]
         /\ stopSends' = [stopSends EXCEPT ![u] = @ + 1]
         /\ cur' = NoUnit
         /\ StopOrNext(todo \ {u})
         /\ UNCHANGED crashed
    ELSE /\ cur = NoUnit
         /\ cur' = u
         /\ UNCHANGED <<stop, stopSends, spc, todo, crashed>>

\* signal case: for name, w := range m.workers { w.stop <- true }
SupSigStop(u) ==
    /\ spc = "stop"
    /\ path = "signal"
    /\ ~crashed
    /\ u \in todo
    /\ cur \in {NoUnit, u}
    /\ SendStop(u)
    /\ UNCHANGED <<regVars, shutdownSigs, lateSigs, signalIn, panicCh, Quit, stopClosed,
                   workerQuit, unitVars, path, reported, awaited, sigCount,
                   quitSends, doneSent, doneRecv, stopSeen>>

\* The values a read of w.isPaniced by Manager.Run can return.  The flag is
\* written by the unit's goroutine without synchronisation: until the manager
\* has received the value Panic sends on workerQuit after the write, the read
\* races with the write and returns the old or the new value.
FlagReads(u) ==
    IF ~isPaniced[u] THEN {FALSE}
    ELSE IF flagSynced[u] THEN {TRUE}
    ELSE {TRUE, FALSE}

\* panic case: if !w.isPaniced, for the unit the loop visits next
SupCheckFlag(u) ==
    /\ spc = "stop"
    /\ path = "panic"
    /\ ~crashed
    /\ u \in todo
    /\ cur = NoUnit
    /\ \E v \in FlagReads(u) :
          IF v THEN StopOrNext(todo \ {u}) /\ UNCHANGED cur
          ELSE cur' = u /\ UNCHANGED <<spc, todo>>
    /\ UNCHANGED <<regVars, shutdownSigs, lateSigs, chanVars, unitVars, path, reported,
                   crashed, histVars>>

\* panic case: w.stop <- true, the flag having been read as false
SupPanicStop(u) ==
    /\ spc = "stop"
    /\ path = "panic"
    /\ ~crashed
    /\ cur = u
    /\ stopClosed[u] \/ stop[u] < StopCap
    /\ SendStop(u)
    /\ UNCHANGED <<regVars, shutdownSigs, lateSigs, signalIn, panicCh, Quit, stopClosed,
                   workerQuit, unitVars, path, reported, awaited, sigCount,
                   quitSends, doneSent, doneRecv, stopSeen>>

\* for name, w := range m.workers { <-w.workerQuit }, in either case
SupWait(u) ==
    /\ spc = "wait"
    /\ ~crashed
    /\ u \in todo
    /\ IF workerQuit[u] # << >>
       THEN /\ cur \in {NoUnit, u}
            /\ workerQuit' = [workerQuit EXCEPT ![u] = Tail(@)]
            /\ doneRecv' = [doneRecv EXCEPT ![u] = @ + 1]
            /\ flagSynced' = [flagSynced EXCEPT
                                ![u] = @ \/ Head(workerQuit[u]) = "panic"]
            /\ cur' = NoUnit
            /\ WaitOrNext(todo \ {u})
       ELSE /\ cur = NoUnit
            /\ cur' = u
            /\ UNCHANGED <<workerQuit, doneRecv, flagSynced, spc, todo>>
    /\ UNCHANGED <<regVars, shutdownSigs, lateSigs, signalIn, panicCh, Quit, stop,
                   stopClosed, isPaniced, upc, path, reported, crashed, awaited,
                   sigCount, quitSends, stopSends, doneSent, stopSeen>>

\* m.Quit <- true; the select is inside for { }, so Run selects again
SupQuit ==
    /\ spc = "quit"
    /\ ~crashed
    /\ Quit < QuitCap
    /\ Quit' = Quit + 1
    /\ quitSends' = quitSends + 1
    /\ spc' = "select"
    /\ path' = "none"
    /\ UNCHANGED <<regVars, shutdownSigs, lateSigs, signalIn, panicCh, stop, stopClosed,
                   workerQuit, unitVars, todo, cur, reported, crashed, awaited,
                   sigCount, stopSends, doneSent, doneRecv, stopSeen>>

(***************************************************************************)
(* The caller: <-manager.Quit, once.                                       *)
(***************************************************************************)
AwaitQuit ==
    /\ ~crashed
    /\ ~awaited
    /\ Quit > 0
    /\ Quit' = Quit - 1
    /\ awaited' = TRUE
    /\ UNCHANGED <<regVars, shutdownSigs, lateSigs, signalIn, panicCh, stop, stopClosed,
                   workerQuit, unitVars, supVars, crashed, sigCount, quitSends,
                   stopSends, doneSent, doneRecv, stopSeen>>

(***************************************************************************)
(* A unit.  Its Run is the caller's code; the model lets it do what the    *)
(* UnitManager interface allows: receive from ShouldStop() in its loop,    *)
(* call Done after a stop request, call Panic once.  A unit that takes no  *)
(* step hangs.                                                             *)
(***************************************************************************)
\* case <-um.ShouldStop(): a buffered value, or the channel is closed
UnitObserveStop(u) ==
    /\ ~crashed
    /\ u \in workers
    /\ upc[u] \in {"run", "done"}
    /\ stop[u] > 0 \/ stopClosed[u]
    /\ stop' = [stop EXCEPT ![u] = IF @ > 0 THEN @ - 1 ELSE 0]
    /\ stopSeen' = [stopSeen EXCEPT ![u] = @ + 1]
    /\ upc' = [upc EXCEPT ![u] = "stopping"]
    /\ UNCHANGED <<regVars, shutdownSigs, lateSigs, signalIn, panicCh, Quit, stopClosed,
                   workerQuit, isPaniced, flagSynced, supVars, crashed, awaited,
                   sigCount, quitSends, stopSends, doneSent, doneRecv>>

\* WorkUnitManager.Done: w.workerQuit <- true
Done(u) ==
    /\ ~crashed
    /\ u \in workers
    /\ upc[u] = "stopping"
    /\ Len(workerQuit[u]) < WorkerQuitCap
    /\ workerQuit' = [workerQuit EXCEPT ![u] = Append(@, "done")]
    /\ doneSent' = [doneSent EXCEPT ![u] = @ + 1]
    /\ upc' = [upc EXCEPT ![u] = "done"]
    /\ UNCHANGED <<regVars, shutdownSigs, lateSigs, signalIn, panicCh, Quit, stop,
                   stopClosed, isPaniced, flagSynced, supVars, crashed, awaited,
                   sigCount, quitSends, stopSends, doneRecv, stopSeen>>

\* the unit calls WorkUnitManager.Panic(err)
PanicCall(u) ==
    /\ ~crashed
    /\ u \in workers
    /\ upc[u] \in {"run", "stopping"}
    /\ upc' = [upc EXCEPT ![u] = "panicSend"]
    /\ UNCHANGED <<regVars, shutdownSigs, lateSigs, chanVars, isPaniced, flagSynced,
                   supVars, crashed, histVars>>

\* w.panic <- err
PanicSend(u) ==
    /\ ~crashed
    /\ u \in workers
    /\ upc[u] = "panicSend"
    /\ Len(panicCh) < PanicCap
    /\ panicCh' = Append(panicCh, u)
    /\ upc' = [upc EXCEPT ![u] = "panicFlag"]
    /\ UNCHANGED <<regVars, shutdownSigs, lateSigs, signalIn, Quit, stop, stopClosed,
                   workerQuit, isPaniced, flagSynced, supVars, crashed, histVars>>

\* a Panic that goes on without setting the flag
PanicFlagDropped(u) ==
    /\ ~crashed
    /\ u \in workers
    /\ upc[u] = "panicFlag"
    /\ upc' = [upc EXCEPT ![u] = "panicQuit"]
    /\ UNCHANGED <<regVars, shutdownSigs, lateSigs, chanVars, isPaniced, flagSynced,
                   supVars, crashed, histVars>>

\* w.isPaniced = true
PanicFlag(u) ==
    /\ ~crashed
    /\ u \in workers
    /\ upc[u] = "panicFlag"
    /\ isPaniced' = [isPaniced EXCEPT ![u] = TRUE]
    /\ upc' = [upc EXCEPT ![u] = "panicQuit"]
    /\ UNCHANGED <<regVars, shutdownSigs, lateSigs, chanVars, flagSynced, supVars, crashed,
                   histVars>>

\* w.workerQuit <- true
PanicQuit(u) ==
    /\ ~crashed
    /\ u \in workers
    /\ upc[u] = "panicQuit"
    /\ Len(workerQuit[u]) < WorkerQuitCap
    /\ workerQuit' = [workerQuit EXCEPT ![u] = Append(@, "panic")]
    /\ doneSent' = [doneSent EXCEPT ![u] = @ + 1]
    /\ upc' = [upc EXCEPT ![u] = "panicClose"]
    /\ UNCHANGED <<regVars, shutdownSigs, lateSigs, signalIn, panicCh, Quit, stop,
                   stopClosed, isPaniced, flagSynced, supVars, crashed, awaited,
                   sigCount, quitSends, stopSends, doneRecv, stopSeen>>

\* close(w.stop)
PanicClose(u) ==
    /\ ~crashed
    /\ u \in workers
    /\ upc[u] = "panicClose"
    /\ IF stopClosed[u]
       THEN crashed' = TRUE /\ UNCHANGED <<stopClosed, upc>>
       ELSE /\ stopClosed' = [stopClosed EXCEPT ![u] = TRUE]
            /\ upc' = [upc EXCEPT ![u] = "failed"]
            /\ UNCHANGED crashed
    /\ UNCHANGED <<regVars, shutdownSigs, lateSigs, signalIn, panicCh, Quit, stop,
                   workerQuit, isPaniced, flagSynced, supVars, histVars>>

RegisterUpTo(n) ==
    /\ ~crashed
    /\ addCalls[1] < n
    /\ \E label \in RunLabels, t \in RunTypes : AddUnit(1, label, t)

Register == RegisterUpTo(MaxUnits)

Arm == \E sig \in Signals : ShutdownOn(sig)

Relay == \E sig \in Signals : DeliverSignal(sig)

Supervisor ==
    \/ SupStart
    \/ SupRecvSignal
    \/ SupRecvPanic
    \/ \E u \in workers : SupSigStop(u)
    \/ \E u \in workers : SupCheckFlag(u)
    \/ \E u \in workers : SupPanicStop(u)
    \/ \E u \in workers : SupWait(u)
    \/ SupQuit

Unit(u) ==
    \/ UnitObserveStop(u)
    \/ Done(u)
    \/ PanicCall(u)
    \/ PanicSend(u)
    \/ PanicFlag(u)
    \/ PanicQuit(u)
    \/ PanicClose(u)

Next ==
    \/ Register
    \/ Arm
    \/ Relay
    \/ Supervisor
    \/ \E u \in workers : Unit(u)
    \/ AwaitQuit

Spec == Init /\ [][Next]_vars

(***************************************************************************)
(* Units that follow the README's Worker.Run: they receive from            *)
(* ShouldStop(), call Done, and never call Panic.  Each goroutine, the     *)
(* manager's and every unit's, is scheduled fairly by the Go runtime.      *)
(***************************************************************************)
\* every name AddUnit can generate in n calls of Register
NamesUpTo(n) ==
    { UnitName(UnitKey(label, t), i) :
        label \in RunLabels, t \in RunTypes, i \in 0..(n - 1) }

AllNames == NamesUpTo(MaxUnits)

GracefulUnit(u) ==
    \/ UnitObserveStop(u)
    \/ Done(u)

GracefulSupervisor ==
    \/ SupStart
    \/ SupRecvSignal
    \/ \E u \in workers : SupSigStop(u)
    \/ \E u \in workers : SupWait(u)
    \/ SupQuit

NextGraceful ==
    \/ Register
    \/ Arm
    \/ Relay
    \/ GracefulSupervisor
    \/ \E u \in workers : GracefulUnit(u)
    \/ AwaitQuit

SpecGraceful ==
    /\ Init
    /\ [][NextGraceful]_vars
    /\ WF_vars(GracefulSupervisor)
    /\ \A u \in AllNames : WF_vars(GracefulUnit(u))

(***************************************************************************)
(* Fair scheduling of the goroutines in general.  Whether and when a unit  *)
(* calls Panic is the unit's choice; every other step of a goroutine is    *)
(* taken once it stays possible.                                           *)
(***************************************************************************)
UnitProgress(u) ==
    \/ UnitObserveStop(u)
    \/ Done(u)
    \/ PanicSend(u)
    \/ PanicFlag(u)
    \/ PanicQuit(u)
    \/ PanicClose(u)

SpecFair ==
    /\ Init
    /\ [][Next]_vars
    /\ WF_vars(Supervisor)
    /\ \A u \in AllNames : WF_vars(UnitProgress(u))

(***************************************************************************)
(* The manager with no shutdown signal armed: failures are the only        *)
(* shutdown trigger.                                                       *)
(***************************************************************************)
PanicNames == NamesUpTo(PanicUnits)

RegisterPanic == RegisterUpTo(PanicUnits)

PanicSupervisor ==
    \/ SupStart
    \/ SupRecvPanic
    \/ \E u \in workers : SupCheckFlag(u)
    \/ \E u \in workers : SupPanicStop(u)
    \/ \E u \in workers : SupWait(u)
    \/ SupQuit

NextPanic ==
    \/ RegisterPanic
    \/ PanicSupervisor
    \/ \E u \in workers : Unit(u)
    \/ AwaitQuit

SpecPanic ==
    /\ Init
    /\ [][NextPanic]_vars
    /\ WF_vars(PanicSupervisor)
    /\ \A u \in PanicNames : WF_vars(UnitProgress(u))

(***************************************************************************)
(* ShutdownOn called while Run is running.  It calls signal.Notify for the *)
(* signal first and appends it to shutdownSigs afterwards, so the signal   *)
(* can reach signalIn before it is a shutdown signal.                      *)
(***************************************************************************)
LateSignals == {"TERM"}

\* units registered before Run when ShutdownOn runs concurrently with Run
ArmUnits == 1

\* signal.Notify(m.signalIn, s)
NotifyLate(sig) ==
    /\ ~crashed
    /\ spc # "idle"
    /\ sig \notin lateSigs
    /\ lateSigs' = lateSigs \cup {sig}
    /\ UNCHANGED <<regVars, shutdownSigs, chanVars, unitVars, supVars, crashed,
                   histVars>>

\* m.shutdownSigs = append(m.shutdownSigs, sig...)
AppendLate ==
    /\ ~crashed
    /\ lateSigs \ shutdownSigs # {}
    /\ shutdownSigs' = shutdownSigs \cup lateSigs
    /\ UNCHANGED <<regVars, lateSigs, chanVars, unitVars, supVars, crashed,
                   histVars>>

\* the os/signal package relays a signal registered with signal.Notify
DeliverNotified(sig) ==
    /\ ~crashed
    /\ sig \in shutdownSigs \cup lateSigs
    /\ sigCount < MaxSignals
    /\ Len(signalIn) < SignalInCap
    /\ signalIn' = Append(signalIn, sig)
    /\ sigCount' = sigCount + 1
    /\ UNCHANGED <<regVars, shutdownSigs, lateSigs, panicCh, Quit, stop,
                   stopClosed, workerQuit, unitVars, supVars, crashed, awaited,
                   quitSends, stopSends, doneSent, doneRecv, stopSeen>>

RegisterArm == RegisterUpTo(ArmUnits)

NextArm ==
    \/ RegisterArm
    \/ Arm
    \/ \E sig \in LateSignals : NotifyLate(sig)
    \/ AppendLate
    \/ \E sig \in Signals \cup LateSignals : DeliverNotified(sig)
    \/ Supervisor
    \/ \E u \in workers : Unit(u)
    \/ AwaitQuit

SpecArm == Init /\ [][NextArm]_vars

(***************************************************************************)
(* C1.  Quit is sent only after the manager has received a value from the  *)
(* workerQuit channel of every registered unit, once per send on Quit, on  *)
(* the signal case and on the panic case; while some unit has never sent   *)
(* on its workerQuit (neither Done nor Panic), Quit is not sent.           *)
(***************************************************************************)
C1_QuitOnlyAfterAllDone ==
    \A u \in workers :
        /\ doneRecv[u] >= quitSends
        /\ (doneSent[u] = 0 => quitSends = 0)

\* Quit sent with two units, one stopped by Done and one by Panic
C1_Witness ==
    /\ quitSends >= 1
    /\ \E u, v \in workers :
          /\ upc[u] = "done" /\ upc[v] = "failed"
          /\ doneRecv[u] >= 1 /\ doneRecv[v] >= 1

(***************************************************************************)
(* C2.  Run has started the registered units and an armed signal has been  *)
(* relayed.  When every unit calls Done after it observes its stop request *)
(* (SpecGraceful), then eventually every unit has been sent a stop         *)
(* notification and Quit has been sent.                                    *)
(***************************************************************************)
C2_SignalLeadsToQuit ==
    (spc # "idle" /\ sigCount >= 1)
        ~> (quitSends >= 1 /\ \A u \in workers : stopSends[u] >= 1)

\* a signal shut down two units, both called Done, Quit was sent
C2_Witness ==
    /\ sigCount >= 1
    /\ quitSends >= 1
    /\ Cardinality(workers) >= 2
    /\ \A u \in workers : stopSends[u] >= 1 /\ upc[u] = "done"

(***************************************************************************)
(* C3.  Over the lifetime of the manager, whatever the number of units and *)
(* the signals and failure reports that arrive, at most one send on Quit   *)
(* completes.                                                              *)
(***************************************************************************)
C3_QuitAtMostOnce == quitSends <= 1

\* the units that have called Panic
Panicking == { u \in workers : upc[u] \in {"panicSend", "panicFlag", "panicQuit",
                                            "panicClose", "failed"} }

(***************************************************************************)
(* C4.  Three units are registered and no signal is armed.  While A is the *)
(* only unit that has called Panic: the manager has sent no stop           *)
(* notification to A and at most one to each of B and C, and Quit has been *)
(* sent at most once, and only after B and C were each sent one stop       *)
(* notification and the manager received their done-signals.               *)
(***************************************************************************)
C4_OnlyOthersStopped ==
    \A a \in workers :
        (Cardinality(workers) = 3 /\ Panicking = {a}) =>
            /\ stopSends[a] = 0
            /\ \A b \in workers \ {a} : stopSends[b] <= 1
            /\ quitSends <= 1
            /\ quitSends = 1 =>
                  \A b \in workers \ {a} : stopSends[b] = 1 /\ doneRecv[b] >= 1

(***************************************************************************)
(* C5.  A unit that calls Panic without having observed a stop request     *)
(* (also when it is the only unit) leads to a state where Quit has been    *)
(* sent, the unit's isPaniced flag is set, and every other unit has been   *)
(* sent a stop request or has itself called Panic; the other units report  *)
(* done by fairness.                                                       *)
(***************************************************************************)
C5_PanicLeadsToQuit ==
    \A u \in AllNames :
        (u \in workers /\ upc[u] = "panicSend" /\ stopSeen[u] = 0)
            ~> /\ quitSends >= 1
               /\ u \in workers
               /\ isPaniced[u]
               /\ \A v \in workers \ {u} : stopSends[v] >= 1 \/ v \in Panicking

(***************************************************************************)
(* C6.  When several units call Panic at the same time, every Panic call   *)
(* completes however many failure reports are pending on the failure sink  *)
(* of capacity PanicCap, so that the manager receives every done-signal    *)
(* and reaches Quit: the manager is never blocked on the workerQuit of a   *)
(* unit whose Panic is still blocked on the full failure sink, a state     *)
(* that neither of the two can leave.                                      *)
(***************************************************************************)
C6_NoPanicBlockedOnSink ==
    ~ /\ ~crashed
      /\ spc = "wait"
      /\ cur \in workers
      /\ workerQuit[cur] = << >>
      /\ upc[cur] = "panicSend"
      /\ Len(panicCh) = PanicCap

(***************************************************************************)
(* C7.  The manager never sends on a stop channel that Panic has closed    *)
(* and no stop channel is closed twice: the process never ends in the Go   *)
(* runtime panic either of them raises.                                    *)
(***************************************************************************)
C7_NoSendOnClosedStop == ~crashed

(***************************************************************************)
(* C10.  Once the manager has decided that a unit should stop, on the      *)
(* signal case or on the panic case, the channel ShouldStop returns is     *)
(* closed, so that a receive on it completes however often it is repeated. *)
(***************************************************************************)
C10_StopRequestClosesStop ==
    \A u \in workers : stopSends[u] >= 1 => stopClosed[u]

(***************************************************************************)
(* C8.  AddUnit calls made one after the other, on one or on several       *)
(* managers, with labels and unit types repeated at will, generate names   *)
(* that are pairwise distinct: no call replaces an entry of a registry,    *)
(* each registry has as many entries as AddUnit was called on its manager, *)
(* and no name is in two registries.                                       *)
(***************************************************************************)
C8_NamesDistinct ==
    /\ \A mgr \in Managers : Cardinality(registry[mgr]) = addCalls[mgr]
    /\ Cardinality(UNION { registry[mgr] : mgr \in Managers })
          = addCalls[1] + addCalls[2]

\* one label and class registered twice on one manager and once on the other,
\* beside a label that contains the key of another registration
C8_Witness ==
    /\ addCalls[1] >= 2 /\ addCalls[2] >= 1
    /\ \E key \in DOMAIN ids : ids[key] >= 3
    /\ \E key \in DOMAIN ids : Len(key) > 3

(***************************************************************************)
(* C9.  AddUnit calls that run concurrently with the same label and unit   *)
(* type obtain pairwise distinct suffixes from the generator, the process  *)
(* survives, and when all calls have returned the counter of the key       *)
(* equals the number of calls.                                             *)
(***************************************************************************)
C9_ConcurrentSuffixesDistinct ==
    /\ ~crashed
    /\ \A c, d \in Callers :
          (/\ c # d
           /\ cpc[c] \in {"load", "store", "insert", "done"}
           /\ cpc[d] \in {"load", "store", "insert", "done"}
           /\ ckey[c] = ckey[d]) => cret[c] # cret[d]
    /\ (\A c \in Callers : cpc[c] = "done") =>
          \A c \in Callers :
              IdOf(ids, ckey[c])
                  = Cardinality({ d \in Callers : ckey[d] = ckey[c] })

(***************************************************************************)
(* C11.  Once Quit has been sent, Run has left its loop: whatever armed    *)
(* signal or failure report arrives afterwards, the manager sends no       *)
(* further stop notification, receives from no workerQuit and does not     *)
(* send on Quit again.                                                     *)
(***************************************************************************)
C11_TerminatedIsTerminal ==
    [][quitSends >= 1 =>
          /\ stopSends' = stopSends
          /\ doneRecv' = doneRecv
          /\ quitSends' = quitSends]_vars

(***************************************************************************)
(* C12.  Over the lifetime of a unit at most one terminal event happens on *)
(* its stop channel: one send by the manager or one close by its Panic,    *)
(* never a send and a close and never two sends, also when the unit calls  *)
(* Panic after it has been sent a stop notification.                       *)
(***************************************************************************)
C12_OneTerminalStopEvent ==
    \A u \in workers :
        stopSends[u] + (IF stopClosed[u] THEN 1 ELSE 0) <= 1

(***************************************************************************)
(* C13.  Whenever the manager, having received a failure report, is about  *)
(* to read the isPaniced flags, the flag of the unit whose report it       *)
(* received is set, and no unit whose flag it may read is between its send *)
(* on the failure sink and the write of its flag.                          *)
(***************************************************************************)
C13_FlagSetWhenInspected ==
    (spc = "stop" /\ path = "panic" /\ cur = NoUnit /\ ~crashed) =>
        /\ isPaniced[reported]
        /\ \A u \in todo : upc[u] # "panicFlag"

(***************************************************************************)
(* C14.  Panic sends on the failure sink, then sets isPaniced, then sends  *)
(* on workerQuit, then closes its stop channel.  So for every unit: a stop *)
(* channel that is closed implies that Panic has sent its done-signal; a   *)
(* done-signal sent by Panic implies that the flag is set; a set flag      *)
(* implies that the failure sink accepted the error; and while Panic waits *)
(* to send on the failure sink the flag is not set, no done-signal of      *)
(* Panic has been sent and the stop channel is open.                       *)
(***************************************************************************)
C14_PanicOrder ==
    \A u \in workers :
        LET sentDone == upc[u] \in {"panicClose", "failed"}
            accepted == upc[u] \in {"panicFlag", "panicQuit", "panicClose",
                                    "failed"}
            token == \E i \in 1..Len(workerQuit[u]) : workerQuit[u][i] = "panic"
        IN  /\ stopClosed[u] => sentDone /\ doneSent[u] >= 1
            /\ token => sentDone
            /\ sentDone => isPaniced[u]
            /\ isPaniced[u] => accepted
            /\ upc[u] = "panicSend" =>
                  ~isPaniced[u] /\ ~token /\ ~stopClosed[u]

\* one unit has returned from Panic while another is blocked on the full sink
C14_Witness ==
    \E u, v \in workers :
        /\ upc[u] = "failed" /\ stopClosed[u] /\ isPaniced[u]
        /\ upc[v] = "panicSend" /\ Len(panicCh) = PanicCap

(***************************************************************************)
(* C15.  When Run, at its select, receives a signal that is not in         *)
(* shutdownSigs, nothing but the receive happens: no stop notification is  *)
(* sent, no done-signal is received, Quit is not sent, and Run is at its   *)
(* select again, where it receives the next signal or failure report.      *)
(***************************************************************************)
C15_UnarmedSignalIgnored ==
    [][(/\ spc = "select"
        /\ signalIn # << >>
        /\ signalIn' = Tail(signalIn)
        /\ Head(signalIn) \notin shutdownSigs)
          => /\ spc' = "select"
             /\ UNCHANGED <<path, todo, cur, stop, stopClosed, stopSends,
                            workerQuit, doneRecv, panicCh, Quit, quitSends,
                            crashed>>]_vars

\* a signal registered but not yet appended was received and nothing happened
C15_Witness ==
    /\ spc = "select"
    /\ workers # {}
    /\ lateSigs # {} /\ lateSigs \cap shutdownSigs = {}
    /\ sigCount = 1 /\ signalIn = << >>
    /\ shutdownSigs = {}
    /\ quitSends = 0
    /\ \A u \in workers : stopSends[u] = 0

(***************************************************************************)
(* C16.  A Panic call made after shutdown has begun completes: when every  *)
(* unit has been sent its stop notification and has observed it, the       *)
(* manager, before its first Quit, is never blocked on the workerQuit of a *)
(* unit whose Panic call is blocked sending on the full failure sink.  In  *)
(* such a state the Panic call never completes, the done-signal is never   *)
(* sent and Quit is never reached.                                         *)
(***************************************************************************)
C16_LatePanicCompletes ==
    ~ /\ ~crashed
      /\ path = "signal"
      /\ quitSends = 0
      /\ spc = "wait"
      /\ cur \in workers
      /\ \A u \in workers : stopSeen[u] >= 1
      /\ upc[cur] = "panicSend"
      /\ workerQuit[cur] = << >>
      /\ Len(panicCh) = PanicCap

(***************************************************************************)
(* C17.  During the first shutdown (before the first Quit): every stop     *)
(* send of the stop loop completes, the stop channel of a unit still to be *)
(* visited is empty, so the send needs no receiver, and the manager is in  *)
(* a wait loop only when every unit has been sent its stop notification,   *)
(* except the units the failure case skips because their flag is set.      *)
(***************************************************************************)
C17_StopBeforeWait ==
    quitSends = 0 =>
        /\ spc = "stop" =>
              /\ ~crashed
              /\ \A u \in todo : stop[u] = 0
        /\ spc \in {"wait", "quit"} =>
              \A u \in workers :
                  stopSends[u] = 1 \/ (path = "panic" /\ isPaniced[u])

(***************************************************************************)
(* Names registered in the process, on any manager, and the keys and names *)
(* AddUnit derives from the labels and unit types of the model.            *)
(***************************************************************************)
AllReg == UNION { registry[mgr] : mgr \in Managers }

AllKeys == { UnitKey(label, t) : label \in Labels, t \in UnitTypes }

NamesOfKey(S, key) == { n \in S : \E i \in 0..MaxRegs : n = UnitName(key, i) }

(***************************************************************************)
(* C18, as stated.  The key of a counter is the pair of label and unit     *)
(* type: a registration with one label and unit type leaves the next       *)
(* suffix of every other pair of label and unit type unchanged.            *)
(***************************************************************************)
C18_CountersPerLabelAndType ==
    [][\A mgr \in Managers, label \in Labels, t \in UnitTypes :
          AddUnit(mgr, label, t) =>
              \A label2 \in Labels, t2 \in UnitTypes :
                  <<label2, t2>> # <<label, t>> =>
                      GenIDRet(ids', UnitKey(label2, t2))
                          = GenIDRet(ids, UnitKey(label2, t2))]_vars

(***************************************************************************)
(* C18, amended.  The key of a counter is the string label[class, class    *)
(* being the unit type's name as AddUnit cuts it out of the type string.   *)
(* Every registration is of one key: it generates the name of that key     *)
(* whose suffix is the number of names registered under the key before,    *)
(* the next suffix of the key becomes that number plus one, the name is    *)
(* the only name added and is of no other key, and the next suffix of      *)
(* every other key is unchanged.                                           *)
(***************************************************************************)
C18_SuffixCountsPerKey ==
    [][\E key \in AllKeys :
          /\ \E i \in 0..MaxRegs : lastName' = UnitName(key, i)
          /\ lastName' = UnitName(key, Cardinality(NamesOfKey(AllReg, key)))
          /\ lastName' \notin AllReg
          /\ AllReg' = AllReg \cup {lastName'}
          /\ IdOf(ids', key) = Cardinality(NamesOfKey(AllReg, key)) + 1
          /\ \A other \in AllKeys \ {key} :
                /\ \A i \in 0..MaxRegs : lastName' # UnitName(other, i)
                /\ IdOf(ids', other) = IdOf(ids, other)]_vars

\* two labels of one unit type both have suffix 0, and the second
\* registration of the first label has just received suffix 1
C18_Witness ==
    \E label1, label2 \in Labels, t \in UnitTypes :
        /\ label1 # label2
        /\ UnitName(UnitKey(label1, t), 0) \in AllReg
        /\ UnitName(UnitKey(label2, t), 0) \in AllReg
        /\ lastName = UnitName(UnitKey(label1, t), 1)

====
